---- MODULE Spec2Model ----
(***************************************************************************)
(* Comprangel: client-side batch image transcoder.                         *)
(*                                                                         *)
(* Part 1 models processImage of src/src/hooks/useImageProcessor.js: the   *)
(* size-bounded encoder search, one action per suspension point (image     *)
(* load, then the toBlob callback of each attempt).                        *)
(*                                                                         *)
(* Part 2 models the batch driver: processBatch and reconvertAll of the    *)
(* same file, the reducer of src/src/context/ImageContext.jsx and the      *)
(* effects and handlers of src/src/App.jsx that start batches.  A handler  *)
(* runs to its next await together with the render and the effects that    *)
(* its dispatches cause.                                                   *)
(*                                                                         *)
(* Qualities are fractions of 1; they are kept as integers in thousandths  *)
(* (0.85 is 850), which represents every value the code computes exactly.  *)
(***************************************************************************)
EXTENDS Integers, Sequences, FiniteSets, TLC

VARIABLES
  chain,            \* the processImage call studied on its own (part 1)
  files,            \* state.files
  settings,         \* state.settings
  processing,       \* state.processing
  processingRef,    \* processingRef.current
  settingsRef,      \* settingsRef.current
  batches,          \* the processBatch invocations, by slot
  debounce,         \* the 300 ms timer of the settings-change effect
  saveTimers,       \* the 100 ms timers of handleSaveEdit
  prevFilesLength,  \* prevFilesLengthRef.current
  prevSettings,     \* prevSettingsRef.current
  nextId,           \* number of file records created so far
  changes,          \* number of settings dispatches so far
  urls,             \* the object URLs of conversion results (claims C17)
  editor,           \* the state of the ImageEditor component (claim C21)
  history           \* the conversion history logs (claim C25)

(* ------------------------------ bounds -------------------------------- *)

\* largest byte size an encoder outcome or an original file takes
MaxSize == 3

\* user quality values (percent) drawn for a processImage call
QualitySet == {30, 80}

\* transform-stage dimensions (finalWidth, finalHeight) drawn for a call
DimSet == {<<2000, 1000>>}

\* files ever added to the list
MaxFiles == 3

\* processBatch invocations alive at the same time
MaxBatches == 2

\* settings dispatches (quality, format, preset, lossless, editor save)
MaxChanges == 1

\* editor-save timers pending at the same time
MaxSaveTimers == 1

(* ------------------------- processImage: helpers ---------------------- *)

Formats == {"webp", "avif", "jpeg", "png"}

\* qualityUsed of a png attempt (finalQuality = undefined)
Undefined == -1

\* an encoder outcome: 0 is "toBlob called back with null", n > 0 is blob.size
Outcomes == 0..MaxSize

\* the six attempts of the chain, in source order
Steps == <<"primary", "half", "webp", "webpLow", "jpeg", "emergency">>

Min2(a, b) == IF a < b THEN a ELSE b

Max2(a, b) == IF a > b THEN a ELSE b

\* Math.round of the non-negative rational num/den
JsRound(num, den) == (2 * num + den) \div (2 * den)

RECURSIVE GCD(_, _)
GCD(a, b) == IF b = 0 THEN a ELSE GCD(b, a % b)

\* the number num/den as a reduced fraction
Frac(num, den) == <<num \div GCD(num, den), den \div GCD(num, den)>>

FracLeq(p, q) == p[1] * q[2] <= q[1] * p[2]

(* ------------------- createCanvas: the pixel filters ------------------ *)

\* Channel values are rationals <<numerator, denominator>> with a positive
\* denominator, reduced.

Abs(x) == IF x < 0 THEN -x ELSE x

Rat(num, den) ==
  LET g == GCD(Abs(num), Abs(den))
      s == IF den < 0 THEN -1 ELSE 1
  IN <<(s * num) \div g, (s * den) \div g>>

RatAdd(p, q) == Rat(p[1] * q[2] + q[1] * p[2], p[2] * q[2])

RatMul(p, q) == Rat(p[1] * q[1], p[2] * q[2])

RatLess(p, q) == p[1] * q[2] < q[1] * p[2]

\* filters, as the destructuring of settings leaves it when it is absent
noFilters == [grayscale |-> FALSE, brightness |-> 0, contrast |-> 0]

filtersOf(st) == IF "filters" \in DOMAIN st THEN st.filters ELSE noFilters

\* a pixel of the decoded image: its r, g and b
pixelOf(file) == IF "pixel" \in DOMAIN file THEN file.pixel ELSE <<0, 0, 0>>

\* gray = 0.299 * r + 0.587 * g + 0.114 * b
grayOf(px) == Rat(299 * px[1] + 587 * px[2] + 114 * px[3], 1000)

\* factor = (259 * (filters.contrast + 255)) / (255 * (259 - filters.contrast))
contrastFactor(contrast) == Rat(259 * (contrast + 255), 255 * (259 - contrast))

\* Math.max(0, Math.min(255, v)) stored into the Uint8ClampedArray: rounded
\* to the nearest integer, a tie to the even one
toUint8Clamped(v) ==
  IF v[1] <= 0 THEN 0
  ELSE IF ~RatLess(v, <<255, 1>>) THEN 255
  ELSE LET q == v[1] \div v[2]
           r == v[1] - q * v[2]
       IN IF 2 * r < v[2] THEN q
          ELSE IF 2 * r > v[2] THEN q + 1
          ELSE IF q % 2 = 0 THEN q ELSE q + 1

\* one channel through brightness, contrast and the store
filterChannel(filters, v) ==
  LET v1 == IF filters.brightness # 0
            THEN RatAdd(v, Rat(filters.brightness * 255, 100)) ELSE v
      v2 == IF filters.contrast # 0
            THEN RatAdd(RatMul(contrastFactor(filters.contrast),
                               RatAdd(v1, <<-128, 1>>)), <<128, 1>>)
            ELSE v1
  IN toUint8Clamped(v2)

\* the preview of ImageEditor: contrast = (filters.contrast + 100) / 100;
\* factor = (259 * (contrast * 255 + 255)) / (255 * (259 - contrast * 255))
previewFactor(contrast) ==
  Rat(259 * (255 * (contrast + 100) + 25500), 255 * (25900 - 255 * (contrast + 100)))

\* one channel through the brightness and contrast of the preview
previewChannel(filters, v) ==
  LET v1 == IF filters.brightness # 0
            THEN RatAdd(v, Rat(filters.brightness * 255, 100)) ELSE v
      v2 == IF filters.contrast # 0
            THEN RatAdd(RatMul(previewFactor(filters.contrast),
                               RatAdd(v1, <<-128, 1>>)), <<128, 1>>)
            ELSE v1
  IN toUint8Clamped(v2)

\* the filter block of the preview on one pixel
previewFilters(filters, px) ==
  IF filters.grayscale \/ filters.brightness # 0 \/ filters.contrast # 0
  THEN [i \in 1..3 |-> previewChannel(filters, IF filters.grayscale THEN grayOf(px)
                                                          ELSE <<px[i], 1>>)]
  ELSE px

applyFiltersMutant(filters, px) ==
  [i \in 1..3 |->
     toUint8Clamped(RatAdd(RatMul(previewFactor(filters.contrast),
                                  <<px[i] - 128, 1>>), <<128, 1>>))]

\* the filter block of createCanvas on one pixel of the drawn image; it is
\* skipped when no filter is set
applyFilters(filters, px) ==
  IF filters.grayscale \/ filters.brightness # 0 \/ filters.contrast # 0
  THEN [i \in 1..3 |-> filterChannel(filters, IF filters.grayscale THEN grayOf(px)
                                                         ELSE <<px[i], 1>>)]
  ELSE px

\* resolveConvert(null)
NoResult ==
  [ok |-> FALSE, convertedSize |-> 0, width |-> 0, height |-> 0,
   format |-> "none", qualityUsed |-> 0]

finalQualityMutant(format, qualityValue, lossless) ==
  CASE format = "webp" -> IF ~lossless THEN Max2(500, qualityValue) ELSE 1000
    [] format = "avif" -> Min2(400, Max2(150, qualityValue))
    [] format = "jpeg" -> Min2(920, Max2(600, qualityValue))
    [] format = "png"  -> Undefined

\* the switch of attemptConversion: the quality handed to canvas.toBlob
finalQuality(format, qualityValue, lossless) ==
  CASE format = "webp" -> IF ~lossless THEN Min2(850, Max2(500, qualityValue))
                                       ELSE 1000
    [] format = "avif" -> Min2(400, Max2(150, qualityValue))
    [] format = "jpeg" -> Min2(920, Max2(600, qualityValue))
    [] format = "png"  -> Undefined

\* attemptConversion: what the toBlob callback resolves with
attemptConversion(format, qualityValue, canvasWidth, canvasHeight, lossless, outcome) ==
  IF outcome # 0
  THEN [ok |-> TRUE, convertedSize |-> outcome, width |-> canvasWidth,
        height |-> canvasHeight, format |-> format,
        qualityUsed |-> finalQuality(format, qualityValue, lossless)]
  ELSE NoResult

\* the AVIF dimension optimization: scale = max(0.4, 1024 / maxDimension)
optimizedDim(d, outputFormat, finalWidth, finalHeight) ==
  LET maxDimension == Max2(finalWidth, finalHeight) IN
  IF outputFormat = "avif" /\ maxDimension > 1024
  THEN IF 1024 * 5 >= 2 * maxDimension
       THEN JsRound(d * 1024, maxDimension)
       ELSE JsRound(d * 2, 5)
  ELSE d

emergencyDimMutant(d) == d \div 2

\* emergencyScale = 0.5
emergencyDim(d) == JsRound(d, 2)

\* format of the attempt issued at a step
stepFormat(step, outputFormat) ==
  CASE step = "primary"   -> outputFormat
    [] step = "half"      -> outputFormat
    [] step = "webp"      -> "webp"
    [] step = "webpLow"   -> "webp"
    [] step = "jpeg"      -> "jpeg"
    [] step = "emergency" -> "webp"

stepQualityMutant(step, quality) ==
  CASE step = "primary"   -> quality * 10
    [] step = "half"      -> Max2(100, quality * 5)
    [] step = "webp"      -> Min2(600, quality * 10)
    [] step = "webpLow"   -> 400
    [] step = "jpeg"      -> 400
    [] step = "emergency" -> 400

\* quality argument of the attempt issued at a step (thousandths)
stepQuality(step, quality) ==
  CASE step = "primary"   -> quality * 10
    [] step = "half"      -> Max2(100, quality * 5)
    [] step = "webp"      -> Min2(600, quality * 10)
    [] step = "webpLow"   -> 300
    [] step = "jpeg"      -> 400
    [] step = "emergency" -> 400

\* the guards `outputFormat !== 'png'` and `outputFormat !== 'webp'`
stepApplies(step, outputFormat) ==
  CASE step = "half" -> outputFormat # "png"
    [] step = "webp" -> outputFormat # "webp"
    [] OTHER         -> TRUE

StepIndex(step) == CHOOSE i \in 1..Len(Steps) : Steps[i] = step

\* the next attempt the code issues after `step`, or "select" after the last
RECURSIVE nextStepMutant(_, _)
nextStepMutant(i, outputFormat) ==
  IF i >= Len(Steps) - 1 THEN "select"
  ELSE IF stepApplies(Steps[i + 1], outputFormat) THEN Steps[i + 1]
  ELSE nextStepMutant(i + 1, outputFormat)

RECURSIVE nextStep(_, _)
nextStep(i, outputFormat) ==
  IF i >= Len(Steps) THEN "select"
  ELSE IF stepApplies(Steps[i + 1], outputFormat) THEN Steps[i + 1]
  ELSE nextStep(i + 1, outputFormat)

beatsMutant(result, originalSize) ==
  result.ok /\ result.convertedSize <= originalSize

\* `result && result.convertedSize < originalSize`
beats(result, originalSize) ==
  result.ok /\ result.convertedSize < originalSize

validResultsMutant(attempts) ==
  SelectSeq([i \in 1..Len(attempts) - 1 |-> attempts[i + 1].result],
            LAMBDA r : r.ok)

\* attempts.filter(a => a.result).map(a => a.result)
validResults(attempts) ==
  SelectSeq([i \in 1..Len(attempts) |-> attempts[i].result],
            LAMBDA r : r.ok)

RECURSIVE reduceLast(_, _, _)
reduceLast(rs, i, min) ==
  IF i > Len(rs) THEN min
  ELSE reduceLast(rs, i + 1, rs[i])

smallestResultMutant(rs) == reduceLast(rs, 2, rs[1])

\* validResults.reduce((min, curr) => curr.convertedSize < min.convertedSize ? curr : min)
RECURSIVE reduceMin(_, _, _)
reduceMin(rs, i, min) ==
  IF i > Len(rs) THEN min
  ELSE reduceMin(rs, i + 1,
                 IF rs[i].convertedSize < min.convertedSize THEN rs[i] ELSE min)

smallestResult(rs) == reduceMin(rs, 2, rs[1])

(* ---------------------- processImage: state machine ------------------- *)

\* F applied to the value of x: x is evaluated once, as a statement that
\* has run before the next one reads its result
Then(x, F(_)) == CHOOSE y \in {F(v) : v \in {x}} : TRUE

\* resize, as the destructuring of settings leaves it when it is absent
noResize ==
  [enabled |-> FALSE, mode |-> "percentage", percentage |-> 100,
   width |-> 0, height |-> 0, lockAspect |-> FALSE]

\* the destructuring of settings: rotate = 0 by default, resize and flip
\* undefined by default (no resize, no flip)
rotateOf(st) == IF "rotate" \in DOMAIN st THEN st.rotate ELSE 0

resizeOf(st) == IF "resize" \in DOMAIN st THEN st.resize ELSE noResize

flipOf(st) ==
  IF "flip" \in DOMAIN st THEN st.flip
  ELSE [horizontal |-> FALSE, vertical |-> FALSE]

\* the crop of the settings object; processImage does not destructure it
noCrop == [enabled |-> FALSE, x |-> 0, y |-> 0, width |-> 0, height |-> 0]

cropOf(st) == IF "crop" \in DOMAIN st THEN st.crop ELSE noCrop

\* width after the resize stage, from img.width x img.height; a width or
\* height of 0 in resize is one that is not set
resizedWidth(width, height, resize) ==
  IF ~resize.enabled THEN width
  ELSE IF resize.mode = "percentage" THEN JsRound(width * resize.percentage, 100)
  ELSE IF resize.lockAspect
       THEN IF resize.width # 0 THEN resize.width
            ELSE IF resize.height # 0 THEN JsRound(resize.height * width, height)
            ELSE width
       ELSE IF resize.width # 0 THEN resize.width ELSE width

\* height after the resize stage
resizedHeight(width, height, resize) ==
  IF ~resize.enabled THEN height
  ELSE IF resize.mode = "percentage" THEN JsRound(height * resize.percentage, 100)
  ELSE IF resize.lockAspect
       THEN IF resize.width # 0 THEN JsRound(resize.width * height, width)
            ELSE IF resize.height # 0 THEN resize.height
            ELSE height
       ELSE IF resize.height # 0 THEN resize.height ELSE height

finalWidthMutant(width, height, rotate) == IF rotate # 0 THEN height ELSE width

\* const finalWidth = (rotate === 90 || rotate === 270) ? height : width
finalWidth(width, height, rotate) ==
  IF rotate = 90 \/ rotate = 270 THEN height ELSE width

\* const finalHeight = (rotate === 90 || rotate === 270) ? width : height
finalHeight(width, height, rotate) ==
  IF rotate = 90 \/ rotate = 270 THEN width ELSE height

\* a call of processImage(file, settings) that waits for img.onload/onerror
\* on an image of dims[1] x dims[2] pixels
newCall(file, st, dims, enc) ==
  [pc |-> "loading",
   originalSize |-> file.originalSize, decodable |-> file.decodable,
   outputFormat |-> st.outputFormat, quality |-> st.quality,
   lossless |-> st.lossless,
   imgWidth |-> dims[1], imgHeight |-> dims[2],
   rotate |-> rotateOf(st), flip |-> flipOf(st), resize |-> resizeOf(st),
   crop |-> cropOf(st), filters |-> filtersOf(st), pixel |-> pixelOf(file),
   finalWidth |-> finalWidth(resizedWidth(dims[1], dims[2], resizeOf(st)),
                             resizedHeight(dims[1], dims[2], resizeOf(st)),
                             rotateOf(st)),
   finalHeight |-> finalHeight(resizedWidth(dims[1], dims[2], resizeOf(st)),
                               resizedHeight(dims[1], dims[2], resizeOf(st)),
                               rotateOf(st)),
   enc |-> enc,
   attempts |-> <<>>, result |-> NoResult, error |-> "none"]

\* canvas dimensions of the attempt issued at a step
stepWidth(c, step) ==
  LET optimizedWidth ==
        optimizedDim(c.finalWidth, c.outputFormat, c.finalWidth, c.finalHeight)
  IN IF step = "emergency" THEN emergencyDim(optimizedWidth) ELSE optimizedWidth

stepHeight(c, step) ==
  LET optimizedHeight ==
        optimizedDim(c.finalHeight, c.outputFormat, c.finalWidth, c.finalHeight)
  IN IF step = "emergency" THEN emergencyDim(optimizedHeight) ELSE optimizedHeight

createCanvasMutant(c, step) ==
  IF Len(c.attempts) = 0 THEN applyFilters(c.filters, c.pixel)
  ELSE applyFilters(c.filters, c.attempts[Len(c.attempts)].canvas)

\* createCanvas(canvasWidth, canvasHeight) of the attempt issued at a step,
\* by one of its pixels: img is drawn anew and the filters are applied
createCanvas(c, step) == applyFilters(c.filters, c.pixel)

\* img.onerror
onerror(c) == [c EXCEPT !.pc = "rejected", !.error = "Failed to load image"]

\* img.onload up to the first await: the primary attempt is issued
onload(c) == [c EXCEPT !.pc = "primary"]

\* the code after the last attempt: smallest valid result, or reject
select(c, attempts) ==
  Then(validResults(attempts), LAMBDA valid :
    IF Len(valid) > 0
    THEN [c EXCEPT !.pc = "resolved", !.attempts = attempts,
                   !.result = smallestResult(valid)]
    ELSE [c EXCEPT !.pc = "rejected", !.attempts = attempts,
                   !.error = "Failed to create compressed image"])

\* continuation of `await attemptConversion(...)` for the attempt in flight:
\* push the attempt, resolve if it beats the original, else issue the next
attemptDone(c, outcome) ==
  LET step == c.pc
      next == nextStep(StepIndex(step), c.outputFormat)
  IN Then(attemptConversion(stepFormat(step, c.outputFormat),
                            stepQuality(step, c.quality),
                            stepWidth(c, step), stepHeight(c, step),
                            c.lossless, outcome),
          LAMBDA result :
     Then(Append(c.attempts,
                 [step |-> step,
                  format |-> stepFormat(step, c.outputFormat),
                  quality |-> stepQuality(step, c.quality),
                  canvas |-> createCanvas(c, step),
                  result |-> result]),
          LAMBDA attempts :
       IF beats(result, c.originalSize)
       THEN [c EXCEPT !.pc = "resolved", !.attempts = attempts, !.result = result]
       ELSE IF next = "select" THEN select(c, attempts)
       ELSE [c EXCEPT !.pc = next, !.attempts = attempts]))

Settled(c) == c.pc \in {"resolved", "rejected"}

\* processImage run to completion against the encoder behaviour c.enc
RECURSIVE processImage(_)
processImage(c) ==
  IF Settled(c) THEN c
  ELSE Then(IF c.pc = "loading"
            THEN (IF c.decodable THEN onload(c) ELSE onerror(c))
            ELSE attemptDone(c, c.enc[StepIndex(c.pc)]),
            LAMBDA c1 : processImage(c1))

(* ------------------------------ reducer ------------------------------- *)

\* initialState.settings (the transform settings are represented by rotate)
initialSettings ==
  [outputFormat |-> "webp", quality |-> 80, lossless |-> FALSE,
   preset |-> "custom", rotate |-> 0]

\* initialState.processing
initialProcessing == [isProcessing |-> FALSE, isPaused |-> FALSE, progress |-> <<0, 1>>]

\* formatSpecificPresets[format][preset]
formatSpecificPresets(format, preset) ==
  CASE preset = "web" ->
         [quality |-> CASE format = "avif" -> 35 [] format = "png" -> 80 [] OTHER -> 75,
          lossless |-> FALSE]
    [] preset = "high" ->
         [quality |-> CASE format = "webp" -> 85 [] format = "avif" -> 50
                        [] format = "jpeg" -> 92 [] OTHER -> 95,
          lossless |-> FALSE]
    [] preset = "smallest" ->
         [quality |-> CASE format = "avif" -> 20 [] format = "png" -> 50 [] OTHER -> 60,
          lossless |-> FALSE]

UPDATE_FILE_Mutant(fs, id, updates) ==
  [i \in 1..Len(fs) |-> updates @@ fs[i]]

\* case ActionTypes.UPDATE_FILE
UPDATE_FILE(fs, id, updates) ==
  [i \in 1..Len(fs) |-> IF fs[i].id = id THEN updates @@ fs[i] ELSE fs[i]]

\* case ActionTypes.ADD_FILES
ADD_FILES(fs, payload) == fs \o payload

\* case ActionTypes.SET_PROCESSING
SET_PROCESSING(p, payload) == payload @@ p

\* case ActionTypes.UPDATE_PROGRESS
UPDATE_PROGRESS(p, payload) == [p EXCEPT !.progress = payload]

\* case ActionTypes.SET_SETTINGS
SET_SETTINGS(st, payload) == payload @@ st

\* case ActionTypes.SET_QUALITY
SET_QUALITY(st, payload) == [st EXCEPT !.quality = payload, !.preset = "custom"]

\* case ActionTypes.SET_OUTPUT_FORMAT
SET_OUTPUT_FORMAT(st, payload) == [st EXCEPT !.outputFormat = payload]

\* case ActionTypes.SET_PRESET (a preset without configuration sets only the name)
SET_PRESET(st, payload) ==
  IF payload = "custom"
  THEN [st EXCEPT !.preset = payload]
  ELSE [st EXCEPT !.preset = payload,
                  !.quality = formatSpecificPresets(st.outputFormat, payload).quality,
                  !.lossless = formatSpecificPresets(st.outputFormat, payload).lossless]

(* --------------------------- batch driver ----------------------------- *)

\* the file record DropZone.processFiles builds
newFile(id, originalSize, decodable) ==
  [id |-> id, originalSize |-> originalSize, decodable |-> decodable,
   isConverting |-> FALSE, isConverted |-> FALSE, convertedSize |-> 0,
   outputFormat |-> "none", error |-> "none"]

\* what processBatch and reconvertAll read of the file objects they close
\* over: id, originalSize, previewUrl (whether it decodes) and isConverting
closure(fs) ==
  [i \in 1..Len(fs) |->
     [id |-> fs[i].id, originalSize |-> fs[i].originalSize,
      decodable |-> fs[i].decodable, isConverting |-> fs[i].isConverting]]

\* a slot that holds no processBatch invocation.  Beside the locals of the
\* invocation (files, index, processed, currentSettings) a slot records the
\* settings the call in flight was given (used), state.settings at entry
\* (startSettings) and the dispatches of the invocation in order (log).
idleBatch ==
  [active |-> FALSE, files |-> <<>>, index |-> 0, processed |-> 0,
   currentSettings |-> initialSettings, startSettings |-> initialSettings,
   log |-> <<>>, used |-> initialSettings]

\* the program state as one value, for the operators that model handlers
State ==
  [files |-> files, settings |-> settings, processing |-> processing,
   processingRef |-> processingRef, settingsRef |-> settingsRef,
   batches |-> batches, debounce |-> debounce, saveTimers |-> saveTimers,
   prevFilesLength |-> prevFilesLength, prevSettings |-> prevSettings,
   nextId |-> nextId, changes |-> changes]

Commit(s) ==
  /\ UNCHANGED chain
  /\ files' = s.files
  /\ settings' = s.settings
  /\ processing' = s.processing
  /\ processingRef' = s.processingRef
  /\ settingsRef' = s.settingsRef
  /\ batches' = s.batches
  /\ debounce' = s.debounce
  /\ saveTimers' = s.saveTimers
  /\ prevFilesLength' = s.prevFilesLength
  /\ prevSettings' = s.prevSettings
  /\ nextId' = s.nextId
  /\ changes' = s.changes
  /\ UNCHANGED <<urls, editor, history>>

ActiveBatches(s) == {b \in 1..MaxBatches : s.batches[b].active}

FreeSlot(s) == CHOOSE b \in 1..MaxBatches : ~s.batches[b].active
                 /\ \A a \in 1..b - 1 : s.batches[a].active

\* the settings of the call: processImage(file, currentSettings)
callSettingsMutant(s, b) == s.settingsRef

callSettings(s, b) == s.batches[b].currentSettings

\* the top of the for loop of processBatch up to `await processImage(...)`:
\* the file is marked converting and its image starts to load
beginFile(s, b) ==
  LET batch == s.batches[b]
      file == batch.files[batch.index]
  IN [s EXCEPT
        !.files = UPDATE_FILE(s.files, file.id, [isConverting |-> TRUE]),
        !.batches[b].log = Append(batch.log, <<"converting", file.id, <<0, 1>> >>),
        !.batches[b].used = callSettings(s, b)]

\* processBatch(files) from its entry to the first await
processBatch(s, fileList) ==
  IF s.processingRef \/ Len(fileList) = 0 THEN s
  ELSE LET b == FreeSlot(s)
           s1 == [s EXCEPT
                    !.processingRef = TRUE,
                    !.processing =
                       SET_PROCESSING(s.processing,
                                      [isProcessing |-> TRUE, isPaused |-> FALSE,
                                       progress |-> <<0, 1>>]),
                    !.batches[b] =
                       [active |-> TRUE, files |-> closure(fileList), index |-> 1,
                        processed |-> 0, currentSettings |-> s.settingsRef,
                        startSettings |-> s.settings,
                        log |-> << <<"setProcessing", 0, <<0, 1>> >> >>,
                        used |-> s.settingsRef]]
       IN Then(s1, LAMBDA s2 : beginFile(s2, b))

finishBatchMutant(s, b) == [s EXCEPT !.batches[b] = idleBatch]

\* the end of processBatch, after the loop; the invocation is over and its
\* slot is free again
finishBatch(s, b) ==
  [s EXCEPT
     !.processing = SET_PROCESSING(s.processing,
                                   [isProcessing |-> FALSE, progress |-> <<1, 1>>]),
     !.processingRef = FALSE,
     !.batches[b] = idleBatch]

\* the branch of the try or of the catch that records the outcome of the file
recordOutcome(s, b, c) ==
  LET batch == s.batches[b]
      file == batch.files[batch.index]
  IN IF c.pc = "resolved"
     THEN [s EXCEPT
             !.files = UPDATE_FILE(s.files, file.id,
                         [convertedSize |-> c.result.convertedSize,
                          outputFormat |-> c.result.format,
                          isConverting |-> FALSE, isConverted |-> TRUE,
                          error |-> "none"]),
             !.batches[b].log = Append(batch.log, <<"settled", file.id, <<0, 1>> >>)]
     ELSE [s EXCEPT
             !.files = UPDATE_FILE(s.files, file.id,
                         [isConverting |-> FALSE, error |-> c.error]),
             !.batches[b].log = Append(batch.log, <<"settled", file.id, <<0, 1>> >>)]

\* processed++; actions.updateProgress(processed / files.length)
advanceProgress(s, b) ==
  LET batch == s.batches[b]
      processed == batch.processed + 1
  IN [s EXCEPT
        !.processing = UPDATE_PROGRESS(s.processing, Frac(processed, Len(batch.files))),
        !.batches[b].processed = processed,
        !.batches[b].log =
           Append(batch.log, <<"updateProgress", 0, Frac(processed, Len(batch.files))>>)]

\* index++ at the end of a loop iteration
nextIndex(s, b) == [s EXCEPT !.batches[b].index = @ + 1]

fileSettledMutant(s, b, c) ==
  Then(recordOutcome(s, b, c), LAMBDA s1 :
    IF s1.batches[b].index < Len(s1.batches[b].files)
    THEN Then(nextIndex(s1, b), LAMBDA s2 :
           Then(beginFile(s2, b), LAMBDA s3 : advanceProgress(s3, b)))
    ELSE Then(advanceProgress(s1, b), LAMBDA s2 : finishBatch(s2, b)))

\* the for loop of processBatch from the settling of processImage for the
\* current file to the next await, or to the end of the batch
fileSettled(s, b, c) ==
  Then(recordOutcome(s, b, c), LAMBDA s1 :
    Then(advanceProgress(s1, b), LAMBDA s2 :
      IF s2.batches[b].index < Len(s2.batches[b].files)
      THEN Then(nextIndex(s2, b), LAMBDA s3 : beginFile(s3, b))
      ELSE finishBatch(s2, b)))

\* reconvertAll of a render whose state.files was fs
reconvertAll(s, fs) ==
  LET filesToConvert == SelectSeq(fs, LAMBDA f : ~f.isConverting)
  IN IF Len(filesToConvert) > 0
     THEN Then([s EXCEPT !.processingRef = FALSE],
               LAMBDA s1 : processBatch(s1, filesToConvert))
     ELSE s

(* ------------------------- effects of App.jsx ------------------------- *)

\* the four keys the settings-change effect compares
watched(st) ==
  [quality |-> st.quality, outputFormat |-> st.outputFormat,
   preset |-> st.preset, lossless |-> st.lossless]

noTimer == [pending |-> FALSE, files |-> <<>>]

\* the effect that keeps settingsRef, and the settings-change effect.  The
\* latter runs after every dispatch: the provider builds a new actions
\* object on each of its renders, so processBatch and reconvertAll are new
\* functions and the effect's dependencies have changed.  Its cleanup clears
\* the timer of the previous run, then a change of a watched key with files
\* present sets a new timer whose reconvertAll closes over the files of
\* this render
settingsEffect(s) ==
  LET settingsChanged == s.prevSettings # watched(s.settings)
  IN [s EXCEPT
        !.settingsRef = s.settings,
        !.debounce = IF settingsChanged /\ Len(s.files) > 0
                     THEN [pending |-> TRUE, files |-> closure(s.files)]
                     ELSE noTimer,
        !.prevSettings = watched(s.settings)]

\* the auto-convert effect
autoConvertEffect(s) ==
  LET unconvertedFiles ==
        SelectSeq(s.files, LAMBDA f : ~f.isConverted /\ ~f.isConverting)
  IN Then(IF Len(s.files) > s.prevFilesLength /\ Len(unconvertedFiles) > 0
          THEN processBatch(s, unconvertedFiles)
          ELSE s,
          LAMBDA s1 : [s1 EXCEPT !.prevFilesLength = Len(s.files)])

\* the render that follows the dispatches of a handler, with its effects; a
\* batch started by an effect dispatches again and causes one more render
Render(s) ==
  Then(settingsEffect(s), LAMBDA s1 :
    Then(autoConvertEffect(s1), LAMBDA s2 :
      IF s2.batches # s.batches THEN settingsEffect(s2) ELSE s2))

\* a handler: from the state st the dispatches of H, the render they cause
\* and its effects
Handle(st, H(_)) ==
  \E s0 \in {st} : \E s1 \in {H(s0)} : \E s2 \in {Render(s1)} : Commit(s2)

\* a call that would start a batch finds a slot for it
Room(s, fileList) ==
  Len(fileList) = 0 \/ ActiveBatches(s) # 1..MaxBatches

(* --------------------------- driver actions --------------------------- *)

\* encoder behaviours met by the batches: refusal, always small, and bytes
\* from the webp fallbacks only
BatchEncs ==
  { [i \in 1..Len(Steps) |-> 0],
    [i \in 1..Len(Steps) |-> 1],
    [i \in 1..Len(Steps) |-> IF i <= 2 THEN 0 ELSE 1] }

BatchOriginalSize == 2

BatchDims == <<2000, 1000>>

BatchFormats == {"webp", "jpeg"}

BatchQualities == {50, 80}

BatchPresets == {"smallest"}

\* DropZone.processFiles: actions.addFiles(newFiles)
AddFiles ==
  \E n \in 1..(MaxFiles - nextId) : \E dec \in [1..n -> BOOLEAN] :
    LET newFiles == [i \in 1..n |-> newFile(nextId + i, BatchOriginalSize, dec[i])]
    IN /\ Room(State, newFiles)
       /\ Handle(State, LAMBDA s : [s EXCEPT !.files = ADD_FILES(s.files, newFiles),
                                            !.nextId = s.nextId + n])

\* the quality slider: actions.setQuality
SetQuality ==
  \E q \in BatchQualities :
    /\ changes < MaxChanges
    /\ ~settings.lossless
    /\ q # settings.quality
    /\ Handle(State, LAMBDA s : [s EXCEPT !.settings = SET_QUALITY(s.settings, q),
                                                 !.changes = s.changes + 1])

\* a format button: actions.setOutputFormat
SetOutputFormat ==
  \E f \in BatchFormats :
    /\ changes < MaxChanges
    /\ f # settings.outputFormat
    /\ Handle(State, LAMBDA s : [s EXCEPT !.settings = SET_OUTPUT_FORMAT(s.settings, f),
                                                 !.changes = s.changes + 1])

\* a preset button: actions.setPreset
SetPreset ==
  \E p \in BatchPresets :
    /\ changes < MaxChanges
    /\ p # settings.preset
    /\ Handle(State, LAMBDA s : [s EXCEPT !.settings = SET_PRESET(s.settings, p),
                                                 !.changes = s.changes + 1])

\* the MODE toggle, shown for webp and png
ToggleLossless ==
  /\ changes < MaxChanges
  /\ settings.outputFormat \in {"webp", "png"}
  /\ Handle(State, LAMBDA s :
       [s EXCEPT !.settings = SET_SETTINGS(s.settings,
                                           [lossless |-> ~s.settings.lossless]),
                 !.changes = s.changes + 1])

\* handleSaveEdit: the editor's settings are stored and reconvertAll of the
\* current render is scheduled 100 ms later
SaveEdit ==
  \E r \in {0, 90} :
    /\ changes < MaxChanges
    /\ Len(files) > 0
    /\ Cardinality(saveTimers) < MaxSaveTimers
    /\ Handle(State, LAMBDA s :
         [s EXCEPT !.settings = SET_SETTINGS(s.settings, [rotate |-> r]),
                   !.saveTimers = s.saveTimers \cup {closure(s.files)},
                   !.changes = s.changes + 1])

\* the 300 ms timer of the settings-change effect fires
DebounceFire ==
  /\ debounce.pending
  /\ LET fs == SelectSeq(debounce.files, LAMBDA f : ~f.isConverting)
     IN /\ Room(State, fs)
        /\ \E s0 \in {[State EXCEPT !.debounce = noTimer]} :
             IF Len(fs) > 0
             THEN Handle(s0, LAMBDA s : reconvertAll(s, debounce.files))
             ELSE Commit(s0)

\* a 100 ms timer of handleSaveEdit fires
SaveTimerFire ==
  \E t \in saveTimers :
    LET fs == SelectSeq(t, LAMBDA f : ~f.isConverting)
    IN /\ Room(State, fs)
       /\ \E s0 \in {[State EXCEPT !.saveTimers = saveTimers \ {t}]} :
            IF Len(fs) > 0
            THEN Handle(s0, LAMBDA s : reconvertAll(s, t))
            ELSE Commit(s0)

\* the CONVERT button: onConvertAll = () => reconvertAll()
ConvertAll ==
  /\ Len(files) > 0
  /\ ~processing.isProcessing
  /\ LET fs == SelectSeq(files, LAMBDA f : ~f.isConverting)
     IN /\ Room(State, fs)
        /\ Len(fs) > 0
        /\ Handle(State, LAMBDA s : reconvertAll(s, s.files))

\* the processImage call of batch b settles against some encoder behaviour
\* and processBatch resumes after its await
FileSettled(b) ==
  /\ batches[b].active
  /\ \E enc \in BatchEncs :
       LET batch == batches[b]
           file == batch.files[batch.index]
       IN \E c \in {processImage(newCall(file, batch.used, BatchDims, enc))} :
            Handle(State, LAMBDA s : fileSettled(s, b, c))

driverVars ==
  <<files, settings, processing, processingRef, settingsRef, batches, debounce,
    saveTimers, prevFilesLength, prevSettings, nextId, changes, urls, editor,
    history>>

\* no file, no result URL, no batch
noUrls ==
  [files |-> <<>>, created |-> 0, revoked |-> {}, processingRef |-> FALSE,
   isProcessing |-> FALSE, prevFilesLength |-> 0,
   batch |-> [active |-> FALSE, files |-> <<>>, index |-> 0, loaded |-> FALSE],
   nextId |-> 0]

\* no file is being edited
noEditor ==
  [open |-> FALSE, width |-> 0, height |-> 0, resize |-> noResize,
   lastEdit |-> [axis |-> "none", value |-> 0]]

\* both history logs empty: localStorage has no 'conversion_history' item
\* and initialState.history is []
noHistory == [stored |-> <<>>, memory |-> <<>>, storedAdds |-> 0, memoryAdds |-> 0]

DriverInit ==
  /\ urls = noUrls
  /\ editor = noEditor
  /\ history = noHistory
  /\ files = <<>>
  /\ settings = initialSettings
  /\ processing = initialProcessing
  /\ processingRef = FALSE
  /\ settingsRef = initialSettings
  /\ batches = [b \in 1..MaxBatches |-> idleBatch]
  /\ debounce = noTimer
  /\ saveTimers = {}
  /\ prevFilesLength = 0
  /\ prevSettings = watched(initialSettings)
  /\ nextId = 0
  /\ changes = 0

\* the call that part 1 studies has not been made
noCall ==
  newCall([originalSize |-> BatchOriginalSize, decodable |-> FALSE],
          initialSettings, BatchDims, [i \in 1..Len(Steps) |-> 0])

Init == DriverInit /\ chain = noCall

Next ==
  \/ AddFiles
  \/ SetQuality
  \/ SetOutputFormat
  \/ SetPreset
  \/ ToggleLossless
  \/ SaveEdit
  \/ DebounceFire
  \/ SaveTimerFire
  \/ ConvertAll
  \/ \E b \in 1..MaxBatches : FileSettled(b)

(* ------------------ specification of one processImage call ------------ *)

EncVectors == [1..Len(Steps) -> Outcomes]

ChainSettings ==
  [outputFormat : Formats, quality : QualitySet, lossless : BOOLEAN]

ChainFiles == [originalSize : 1..MaxSize, decodable : BOOLEAN]

vars == <<chain, driverVars>>

Spec == Init /\ [][Next]_vars

\* batch b resumes after the processImage call of its current file and runs
\* to its next await or to its end
Advance(b) == batches[b].active /\ batches'[b] # batches[b]

\* Every image load and every toBlob callback eventually fires: weak
\* fairness of FileSettled(b), which is WF_vars(FileSettled(b)) written
\* out. FileSettled(b) is enabled exactly while batch b is active, and it
\* is the only step that changes an active batch.
FairSpec ==
  Init /\ [][Next]_vars
       /\ \A b \in 1..MaxBatches :
            []<>(~batches[b].active) \/ []<><<Advance(b)>>_vars

\* FileSettled(b) is enabled exactly while batch b is active
FileSettledEnabled ==
  \A b \in 1..MaxBatches : batches[b].active <=> ENABLED <<FileSettled(b)>>_vars

\* the steps of FileSettled(b) are the steps that change an active batch b
FileSettledAdvances ==
  [][\A b \in 1..MaxBatches : Advance(b) <=> <<FileSettled(b)>>_vars]_vars

ChainInit ==
  /\ DriverInit
  /\ \E file \in ChainFiles, st \in ChainSettings, dims \in DimSet,
        enc \in EncVectors :
       \* outcomes that no run reads are pinned to 0
       /\ \A i \in 1..Len(Steps) :
            (~file.decodable \/ ~stepApplies(Steps[i], st.outputFormat))
              => enc[i] = 0
       /\ chain = newCall(file, st, dims, enc)

\* img.onload fires
OnLoad ==
  /\ chain.pc = "loading" /\ chain.decodable
  /\ chain' = onload(chain)
  /\ UNCHANGED driverVars

\* img.onerror fires
OnError ==
  /\ chain.pc = "loading" /\ ~chain.decodable
  /\ chain' = onerror(chain)
  /\ UNCHANGED driverVars

\* the toBlob callback of the attempt in flight fires
AttemptStep(step) ==
  /\ chain.pc = step
  /\ chain' = attemptDone(chain, chain.enc[StepIndex(step)])
  /\ UNCHANGED driverVars

PrimaryDone == AttemptStep("primary")

HalfQualityDone == AttemptStep("half")

WebpDone == AttemptStep("webp")

WebpLowDone == AttemptStep("webpLow")

JpegDone == AttemptStep("jpeg")

EmergencyDone == AttemptStep("emergency")

ChainNext ==
  \/ OnLoad
  \/ OnError
  \/ PrimaryDone
  \/ HalfQualityDone
  \/ WebpDone
  \/ WebpLowDone
  \/ JpegDone
  \/ EmergencyDone

SpecChain == ChainInit /\ [][ChainNext]_vars

(* --------------------------- claims C1 .. C4 -------------------------- *)

\* the steps of the chain of section 4.2 that exist for a requested format
ApplicableSteps(outputFormat) ==
  SelectSeq(Steps, LAMBDA s : /\ (s = "half" => outputFormat # "png")
                              /\ (s = "webp" => outputFormat # "webp"))

\* the byte sizes the encoder yields on the applicable steps (0: no bytes)
ApplicableOutcomes(c) ==
  {c.enc[StepIndex(s)] : s \in {Steps[i] : i \in 1..Len(Steps)}
                                \cap {ApplicableSteps(c.outputFormat)[j] :
                                        j \in 1..Len(ApplicableSteps(c.outputFormat))}}

\* C1 (size bound, P1): once the call of a decodable image has settled, if
\* some applicable step of the chain yields a byte size strictly below
\* originalSize, the call resolved with convertedSize < originalSize.
C1_SizeBound ==
  (Settled(chain) /\ chain.decodable
     /\ \E n \in ApplicableOutcomes(chain) : n # 0 /\ n < chain.originalSize)
  => /\ chain.pc = "resolved"
     /\ chain.result.ok
     /\ chain.result.convertedSize < chain.originalSize

\* a fallback step (not the primary attempt) brought the size below the original
C1_Witness ==
  /\ chain.pc = "resolved"
  /\ Len(chain.attempts) >= 3
  /\ chain.result.convertedSize < chain.originalSize

\* C2 (chain order): at every moment the attempts issued so far are a prefix
\* of the applicable steps in the order primary, half quality, webp, webp
\* low, jpeg, emergency; no attempt is issued after one that produced bytes
\* below originalSize, which is then the result; an attempt that equals
\* originalSize or produced no bytes leaves the chain running while steps remain.
C2_ChainOrder ==
  LET as == chain.attempts
      order == ApplicableSteps(chain.outputFormat)
      Below(a) == a.result.ok /\ a.result.convertedSize < chain.originalSize
  IN /\ Len(as) <= Len(order)
     /\ \A i \in 1..Len(as) : as[i].step = order[i]
     /\ \A i \in 1..Len(as) - 1 : ~Below(as[i])
     /\ (Len(as) > 0 /\ Below(as[Len(as)]))
          => chain.pc = "resolved" /\ chain.result = as[Len(as)].result
     /\ (Len(as) > 0 /\ ~Below(as[Len(as)]) /\ Len(as) < Len(order))
          => chain.pc = order[Len(as) + 1]

\* an attempt of exactly originalSize bytes was passed over and a later one won
C2_Witness ==
  /\ chain.pc = "resolved"
  /\ Len(chain.attempts) >= 2
  /\ chain.attempts[1].result.ok
  /\ chain.attempts[1].result.convertedSize = chain.originalSize
  /\ chain.result.convertedSize < chain.originalSize
  /\ chain.result = chain.attempts[Len(chain.attempts)].result

\* C3 (global minimum): when no applicable step yields fewer bytes than
\* originalSize and at least one yields bytes, the settled call resolved
\* with the result of one of its attempts, and no attempt that produced
\* bytes (steps 5 and 6 included) is smaller than the result.
C3_GlobalMinimum ==
  (Settled(chain) /\ chain.decodable
     /\ (\A n \in ApplicableOutcomes(chain) : n = 0 \/ n >= chain.originalSize)
     /\ (\E n \in ApplicableOutcomes(chain) : n # 0))
  => /\ chain.pc = "resolved"
     /\ \E i \in 1..Len(chain.attempts) :
          chain.attempts[i].result.ok /\ chain.attempts[i].result = chain.result
     /\ \A n \in ApplicableOutcomes(chain) :
          n # 0 => chain.result.convertedSize <= n
     /\ \A i \in 1..Len(chain.attempts) :
          chain.attempts[i].result.ok
            => chain.result.convertedSize <= chain.attempts[i].result.convertedSize

\* a non-improving result: larger than the original, smaller than a later attempt
C3_Witness ==
  /\ chain.pc = "resolved"
  /\ chain.result.convertedSize > chain.originalSize
  /\ \E i \in 1..Len(chain.attempts) :
       /\ chain.attempts[i].result.ok
       /\ chain.attempts[i].result.convertedSize > chain.result.convertedSize
       /\ chain.attempts[i].step \in {"jpeg", "emergency"}

\* C4 (encode exhaustion): a settled call of a decodable image is rejected,
\* with the encode-failure error, exactly when every attempt it issued
\* produced no bytes; otherwise it is resolved with a result.
C4_RejectIffNoBytes ==
  (Settled(chain) /\ chain.decodable)
  => LET noBytes == \A i \in 1..Len(chain.attempts) : ~chain.attempts[i].result.ok
     IN /\ chain.pc = "rejected" <=> noBytes
        /\ chain.pc = "rejected"
             => chain.error = "Failed to create compressed image"
        /\ ~noBytes => chain.pc = "resolved" /\ chain.result.ok

\* the whole chain ran without bytes and the call was rejected
C4_Witness ==
  /\ chain.pc = "rejected"
  /\ chain.decodable
  /\ Len(chain.attempts) >= 5
  /\ chain.error = "Failed to create compressed image"

\* only the primary attempt produced bytes and the call still resolved
C4_WitnessResolved ==
  /\ chain.pc = "resolved"
  /\ chain.attempts[1].result.ok
  /\ \A i \in 2..Len(chain.attempts) : ~chain.attempts[i].result.ok
  /\ Len(chain.attempts) >= 5

(* --------------------------- claims C5 .. C10 ------------------------- *)

Converting == {i \in 1..Len(files) : files[i].isConverting}

\* C5 (no overlap): at every moment at most one processBatch invocation is
\* executing and at most one file has isConverting = true.
C5_NoOverlap ==
  /\ Cardinality(ActiveBatches(State)) <= 1
  /\ Cardinality(Converting) <= 1

\* the dispatches the driver of section 4.3 issues for a batch over the files
\* fs up to the moment it waits for file number index
RECURSIVE ExpectedLog(_, _)
ExpectedLog(fs, index) ==
  IF index = 0 THEN << <<"setProcessing", 0, <<0, 1>> >> >>
  ELSE (IF index = 1 THEN ExpectedLog(fs, 0)
        ELSE ExpectedLog(fs, index - 1)
               \o << <<"settled", fs[index - 1].id, <<0, 1>> >>,
                     <<"updateProgress", 0, Frac(index - 1, Len(fs))>> >>)
       \o << <<"converting", fs[index].id, <<0, 1>> >> >>

\* C6 (one at a time, in order): the dispatches of a running batch are, in
\* input order and for one file after the other, the mark isConverting,
\* then the outcome (converted or errored), then the progress of that file;
\* the mark of file k+1 comes after the progress of file k.
C6_OneAtATimeInOrder ==
  \A b \in 1..MaxBatches :
    batches[b].active
      => /\ batches[b].index \in 1..Len(batches[b].files)
         /\ batches[b].processed = batches[b].index - 1
         /\ batches[b].log = ExpectedLog(batches[b].files, batches[b].index)

\* a batch of three files waits for its third file
C6_Witness ==
  \E b \in 1..MaxBatches :
    /\ batches[b].active
    /\ Len(batches[b].files) = 3
    /\ batches[b].index = 3
    /\ Len(batches[b].log) = 8

SameInvocation(b) ==
  /\ batches[b].active
  /\ batches'[b].active
  /\ Len(batches'[b].log) >= Len(batches[b].log)
  /\ SubSeq(batches'[b].log, 1, Len(batches[b].log)) = batches[b].log

\* the payloads of the progress dispatches in a log, in order
ProgressWritten(log) ==
  LET ps == SelectSeq(log, LAMBDA e : e[1] # "converting" /\ e[1] # "settled")
  IN [i \in 1..Len(ps) |-> ps[i][3]]

\* C7 (monotone progress, P2): a batch of N files resets progress to 0 and
\* then writes 1/N, 2/N, ... in order, one value per file; while a batch
\* runs, the progress observed never decreases and stays in [0,1].
C7_MonotoneProgress ==
  [][\A b \in 1..MaxBatches :
       SameInvocation(b)
         => /\ ProgressWritten(batches'[b].log)
                 = [i \in 1..batches'[b].index |->
                      IF i = 1 THEN <<0, 1>>
                      ELSE Frac(i - 1, Len(batches'[b].files))]
            /\ FracLeq(processing.progress, processing'.progress)
            /\ FracLeq(<<0, 1>>, processing'.progress)
            /\ FracLeq(processing'.progress, <<1, 1>>)]_vars

\* C8 (batch completion): under FairSpec every running batch ends, and at
\* its end isProcessing = false, progress = 1 and the in-flight flag is clear.
C8_BatchCompletes ==
  \A b \in 1..MaxBatches :
    batches[b].active
      ~> (/\ ~batches[b].active
          /\ ~processing.isProcessing
          /\ processing.progress = <<1, 1>>
          /\ ~processingRef)

\* a batch over a failed and a converted file has ended
C8_Witness ==
  /\ ActiveBatches(State) = {}
  /\ ~processing.isProcessing
  /\ processing.progress = <<1, 1>>
  /\ ~processingRef
  /\ \E i \in 1..Len(files) : files[i].error # "none"
  /\ \E i \in 1..Len(files) : files[i].isConverted

\* position in state.files of the file with this id
Pos(fs, id) == CHOOSE i \in 1..Len(fs) : fs[i].id = id

\* C9 (failure isolation): when the pipeline of the current file of a batch
\* fails, the failure is recorded on that file alone (error set,
\* isConverting cleared, nothing else changed), an undecodable file fails
\* with the load error, no other record changes except that the next file
\* of the batch is marked converting, and the batch goes on to that file.
C9_FailureIsolation ==
  [][\A b \in 1..MaxBatches :
       Advance(b) =>
         LET batch == batches[b]
             f == batch.files[batch.index]
             p == Pos(files, f.id)
             last == batch.index = Len(batch.files)
         IN /\ Len(files') = Len(files)
            /\ ~f.decodable => files'[p].error = "Failed to load image"
            /\ files'[p].error # "none" =>
                 /\ files'[p].error \in {"Failed to load image",
                                          "Failed to create compressed image"}
                 /\ files'[p] = [files[p] EXCEPT !.isConverting = FALSE,
                                                 !.error = files'[p].error]
                 /\ \A i \in 1..Len(files) \ {p} :
                      \/ files'[i] = files[i]
                      \/ /\ ~last
                         /\ files[i].id = batch.files[batch.index + 1].id
                         /\ files'[i] = [files[i] EXCEPT !.isConverting = TRUE]
                 /\ ~last => /\ batches'[b].active
                             /\ batches'[b].index = batch.index + 1
                             /\ files'[Pos(files, batch.files[batch.index + 1].id)].isConverting]_vars

\* scenario D: three files, the second undecodable; the first and the third
\* are converted, the second is errored, the batch is over
C9_Witness ==
  /\ Len(files) = 3
  /\ ActiveBatches(State) = {}
  /\ processing.progress = <<1, 1>>
  /\ changes = 0
  /\ files[1].isConverted /\ files[1].error = "none"
  /\ ~files[2].isConverted /\ files[2].error = "Failed to load image"
  /\ ~files[2].isConverting
  /\ files[3].isConverted /\ files[3].error = "none"

\* C10 (settings snapshot, P3): the settings every processImage call of a
\* batch is given are state.settings as they were when processBatch was
\* entered, whatever has been dispatched since.
C10_SettingsSnapshot ==
  \A b \in 1..MaxBatches :
    batches[b].active => batches[b].used = batches[b].startSettings

\* a later file of a batch is processed with the settings of the start of the
\* batch although state.settings has changed since; the change is pending
\* for the next batch
C10_Witness ==
  \E b \in 1..MaxBatches :
    /\ batches[b].active
    /\ batches[b].index >= 2
    /\ batches[b].used # settings
    /\ settingsRef = settings
    /\ batches[b].used = batches[b].startSettings

(* --------------------------- claims C11 .. C20 ------------------------ *)

\* Every image load and toBlob callback eventually fires, and so does every
\* timer that has been set and not cleared.
FairTimerSpec ==
  FairSpec /\ WF_vars(DebounceFire) /\ WF_vars(SaveTimerFire)

\* the ids of a sequence of file records, as a set
IdsOf(fs) == {fs[i].id : i \in 1..Len(fs)}

\* batch b is a full reconversion with the settings now current: it runs
\* alone, over all the files of the list, with the watched keys of
\* state.settings
FullReconversion(b) ==
  /\ batches[b].active
  /\ ActiveBatches(State) = {b}
  /\ IdsOf(batches[b].files) = IdsOf(files)
  /\ watched(batches[b].currentSettings) = watched(settings)

\* C11 (reconversion after a settings change): under FairTimerSpec, a change
\* of quality, outputFormat, preset or lossless made while files are present
\* (it leaves the reconversion timer pending) is eventually followed by a
\* batch that runs alone over all files with the changed settings.
C11_ReconversionFollows ==
  debounce.pending ~> \E b \in 1..MaxBatches : FullReconversion(b)

\* C11, first part: a settings change leaves every running batch at the
\* file it is waiting for, with the settings it was given
C11_EncodeNotInterrupted ==
  [][watched(settings') # watched(settings)
       => \A b \in 1..MaxBatches :
            batches[b].active => batches'[b] = batches[b]]_vars

\* C12 (debounced reconversion): a change of a watched key with files
\* present leaves exactly the timer of that change pending, set for the
\* files of that render; and a pending timer goes away only by being
\* replaced at a later change or by firing, which is the one reconvertAll
\* call of the burst.
C12_DebouncedReconversion ==
  [][/\ (watched(settings') # watched(settings) /\ Len(files) > 0)
          => debounce' = [pending |-> TRUE, files |-> closure(files')]
     /\ debounce.pending
          => \/ watched(settings') # watched(settings) /\ debounce'.pending
             \/ debounce' = debounce
             \/ <<DebounceFire>>_vars]_vars

(* ------------- specification of the attempts of one call ------------- *)

\* user quality values drawn for the attempts, inside and outside [1,100]
WideQualitySet == {-20, 0, 15, 30, 80, 100, 150}

\* transform-stage dimensions drawn for the attempts: above and below the
\* AVIF threshold, on both sides of the 0.4 floor, odd and even
WideDimSet ==
  {<<2000, 1000>>, <<800, 600>>, <<1025, 3000>>, <<1100, 1025>>, <<101, 203>>}

\* encoder behaviours drawn for the attempts: no output, or one byte
AttemptEncs == [1..Len(Steps) -> {0, 1}]

AttemptFiles == [originalSize : {1, 2}, decodable : BOOLEAN]

AttemptSettings ==
  [outputFormat : Formats, quality : WideQualitySet, lossless : BOOLEAN]

AttemptsInit ==
  /\ DriverInit
  /\ \E file \in AttemptFiles, st \in AttemptSettings, dims \in WideDimSet,
        enc \in AttemptEncs :
       \* outcomes that no run reads are pinned to 0
       /\ \A i \in 1..Len(Steps) :
            (~file.decodable \/ ~stepApplies(Steps[i], st.outputFormat))
              => enc[i] = 0
       /\ chain = newCall(file, st, dims, enc)

SpecAttempts == AttemptsInit /\ [][ChainNext]_vars

\* the quality the encoder was handed for an attempt: qualityUsed of its
\* result, or, when toBlob called back with null, the value of the switch
Handed(a) ==
  IF a.result.ok THEN a.result.qualityUsed
  ELSE finalQuality(a.format, a.quality, chain.lossless)

\* C13 (quality clamp table): in every attempt issued, whatever the step and
\* the user quality, the quality handed to the encoder is in [0.5, 0.85]
\* for webp without lossless, 1 for webp with lossless, in [0.15, 0.4] for
\* avif, in [0.6, 0.92] for jpeg and undefined for png; and a decodable
\* image fails only by encoder exhaustion, never because of the quality.
C13_QualityClamp ==
  /\ \A i \in 1..Len(chain.attempts) :
       LET a == chain.attempts[i]
           q == Handed(a)
       IN /\ (a.format = "webp" /\ ~chain.lossless) => (500 <= q /\ q <= 850)
          /\ (a.format = "webp" /\ chain.lossless) => q = 1000
          /\ a.format = "avif" => (150 <= q /\ q <= 400)
          /\ a.format = "jpeg" => (600 <= q /\ q <= 920)
          /\ a.format = "png" => q = Undefined
  /\ (chain.decodable /\ chain.pc = "rejected")
       => \A i \in 1..Len(chain.attempts) : ~chain.attempts[i].result.ok

\* a quality above 100 was clamped to the top of the webp range and a
\* quality below 1 to the bottom of the jpeg range, without error
C13_Witness ==
  /\ chain.pc = "resolved"
  /\ chain.quality \notin 1..100
  /\ \E i \in 1..Len(chain.attempts) :
       /\ chain.attempts[i].result.ok
       /\ chain.attempts[i].quality > 1000
       /\ chain.attempts[i].format = "webp"
       /\ chain.attempts[i].result.qualityUsed = 850

\* the format and the quality (thousandths) section 4.2 states for a
\* fallback step
StatedFormat(step, outputFormat) ==
  IF step = "half" THEN outputFormat ELSE IF step = "jpeg" THEN "jpeg" ELSE "webp"

StatedQuality(step, quality) ==
  CASE step = "half"      -> IF quality * 5 > 100 THEN quality * 5 ELSE 100
    [] step = "webp"      -> IF quality * 10 < 600 THEN quality * 10 ELSE 600
    [] step = "webpLow"   -> 300
    [] step = "jpeg"      -> 400
    [] step = "emergency" -> 400

\* the clamp table of section 4.2 applied to a value
ClampTable(format, v, lossless) ==
  LET Clamp(lo, hi) == IF v < lo THEN lo ELSE IF v > hi THEN hi ELSE v
  IN CASE format = "webp" -> IF lossless THEN 1000 ELSE Clamp(500, 850)
       [] format = "avif" -> Clamp(150, 400)
       [] format = "jpeg" -> Clamp(600, 920)
       [] format = "png"  -> Undefined

\* C14 as stated (fallback qualities): every fallback attempt is issued in
\* the format and at the quality the chain states for its step, and the
\* qualityUsed of its result equals that quality (stated here for the user
\* qualities the slider can set).
C14_StatedQualityUsed ==
  chain.quality \in 1..100 =>
    \A i \in 2..Len(chain.attempts) :
      LET a == chain.attempts[i]
      IN /\ a.format = StatedFormat(a.step, chain.outputFormat)
         /\ a.quality = StatedQuality(a.step, chain.quality)
         /\ a.result.ok => a.result.qualityUsed = StatedQuality(a.step, chain.quality)

\* C14 amended: every fallback attempt is issued in the format and at the
\* quality the chain states for its step, and the qualityUsed of its result
\* is that quality after the clamp table of section 4.2 for the format of
\* the attempt.
C14_ClampedQualityUsed ==
  \A i \in 2..Len(chain.attempts) :
    LET a == chain.attempts[i]
    IN /\ a.format = StatedFormat(a.step, chain.outputFormat)
       /\ a.quality = StatedQuality(a.step, chain.quality)
       /\ a.result.ok
            => /\ a.result.format = a.format
               /\ a.result.qualityUsed =
                    ClampTable(a.format, StatedQuality(a.step, chain.quality),
                               chain.lossless)

\* step 4 produced the result: issued at 0.3, encoded at 0.5
C14_Witness ==
  /\ chain.pc = "resolved"
  /\ ~chain.lossless
  /\ \E i \in 2..Len(chain.attempts) :
       /\ chain.attempts[i].step = "webpLow"
       /\ chain.attempts[i].quality = 300
       /\ chain.attempts[i].result = chain.result
       /\ chain.result.ok
       /\ chain.result.qualityUsed = 500

\* what the attempts of a call give the encoder: format, quality handed,
\* canvas width and height, in the order issued
AttemptsView(c) ==
  [i \in 1..Len(c.attempts) |->
     LET a == c.attempts[i]
     IN <<a.format, finalQuality(a.format, a.quality, c.lossless),
          stepWidth(c, a.step), stepHeight(c, a.step)>>]

\* the same call, on the same file against the same encoder behaviour,
\* with the lossless flag inverted, run to completion
LosslessTwin(c) ==
  processImage([c EXCEPT !.pc = "loading", !.attempts = <<>>,
                         !.result = NoResult, !.error = "none",
                         !.lossless = ~c.lossless])

\* C15 (lossless ignored for jpeg and avif): a settled call with
\* outputFormat jpeg or avif issued the same attempts (format, quality
\* handed to the encoder, dimensions) and settled with the same result as
\* the call that differs only in the lossless flag.
C15_LosslessIgnored ==
  (Settled(chain) /\ chain.decodable /\ chain.quality \in 1..100
     /\ chain.outputFormat \in {"jpeg", "avif"})
  => /\ AttemptsView(LosslessTwin(chain)) = AttemptsView(chain)
     /\ LosslessTwin(chain).pc = chain.pc
     /\ LosslessTwin(chain).result = chain.result

\* num/den rounded to the nearest integer, halves upwards
Rounded(num, den) == (2 * num + den) \div (2 * den)

\* section 4.2: the dimension d of a w x h image at steps 1 to 5, scaled by
\* max(0.4, 1024 / max(w, h)) for avif above 1024
StatedDim(d, outputFormat, w, h) ==
  LET m == IF w > h THEN w ELSE h
  IN IF outputFormat = "avif" /\ m > 1024
     THEN (IF 5 * 1024 >= 2 * m THEN Rounded(d * 1024, m) ELSE Rounded(d * 2, 5))
     ELSE d

\* section 4.2: the dimension at an attempt, step 6 at half of it
StatedStepDim(step, d, outputFormat, w, h) ==
  IF step = "emergency" THEN Rounded(StatedDim(d, outputFormat, w, h), 2)
  ELSE StatedDim(d, outputFormat, w, h)

\* C16 (attempt dimensions): every attempt that produced bytes was encoded
\* at the dimensions section 4.2 states for its step (steps 1 to 5 at the
\* transform-stage dimensions, scaled for avif above 1024; step 6 at half of
\* those, rounded), and the width and height of the result of the call are
\* those of the attempt that produced it.
C16_AttemptDimensions ==
  /\ \A i \in 1..Len(chain.attempts) :
       LET a == chain.attempts[i]
       IN a.result.ok =>
            /\ a.result.width = StatedStepDim(a.step, chain.finalWidth, chain.outputFormat,
                                                chain.finalWidth, chain.finalHeight)
            /\ a.result.height = StatedStepDim(a.step, chain.finalHeight, chain.outputFormat,
                                                 chain.finalWidth, chain.finalHeight)
  /\ chain.pc = "resolved"
       => \E i \in 1..Len(chain.attempts) : chain.attempts[i].result = chain.result

\* an avif request of 1100 x 1025 resolved by the emergency step at
\* 512 x 477, half of the optimized 1024 x 954
C16_Witness ==
  /\ chain.pc = "resolved"
  /\ chain.outputFormat = "avif"
  /\ chain.finalWidth = 1100 /\ chain.finalHeight = 1025
  /\ chain.result.width = 512 /\ chain.result.height = 477
  /\ chain.attempts[Len(chain.attempts)].step = "emergency"

\* the example of the claim: 2000 x 1000 converted to webp stays 2000 x 1000
C16_WitnessWebp ==
  /\ chain.pc = "resolved"
  /\ chain.outputFormat = "webp"
  /\ Len(chain.attempts) = 1
  /\ chain.result.width = 2000 /\ chain.result.height = 1000

(* ------------- specification of the result URLs (claim C17) ----------- *)

\* The variable urls holds what the lifetime of the result URLs depends on:
\* the files with their webpUrl (0 when a file has none), the URLs created
\* by URL.createObjectURL(result.convertedBlob) numbered 1..created, the
\* set of those passed to URL.revokeObjectURL, processingRef.current,
\* processing.isProcessing, prevFilesLengthRef.current and the running
\* processBatch invocation with the file objects it closed over.

MaxUrls == 3

urlFile(id) ==
  [id |-> id, webpUrl |-> 0, isConverting |-> FALSE, isConverted |-> FALSE]

\* the top of the for loop up to `await processImage(...)`; the image can
\* load only if the file's previewUrl has not been revoked, that is if the
\* file is still in the list
urlBeginFile(u) ==
  LET file == u.batch.files[u.batch.index]
  IN [u EXCEPT
        !.files = UPDATE_FILE(u.files, file.id, [isConverting |-> TRUE]),
        !.batch.loaded = \E i \in 1..Len(u.files) : u.files[i].id = file.id]

\* processBatch(files) from its entry to the first await
urlProcessBatch(u, fileList) ==
  IF u.processingRef \/ Len(fileList) = 0 THEN u
  ELSE urlBeginFile([u EXCEPT
         !.processingRef = TRUE,
         !.isProcessing = TRUE,
         !.batch = [active |-> TRUE, files |-> fileList, index |-> 1,
                    loaded |-> FALSE]])

\* the try branch revokes the webpUrl of the file object of the closure and
\* stores a new URL; the catch branch stores none
urlRecordOutcome(u, ok) ==
  LET file == u.batch.files[u.batch.index]
  IN IF ok
     THEN [u EXCEPT
             !.revoked = IF file.webpUrl # 0 THEN @ \cup {file.webpUrl} ELSE @,
             !.created = @ + 1,
             !.files = UPDATE_FILE(u.files, file.id,
                         [webpUrl |-> u.created + 1, isConverting |-> FALSE,
                          isConverted |-> TRUE])]
     ELSE [u EXCEPT
             !.files = UPDATE_FILE(u.files, file.id, [isConverting |-> FALSE])]

\* the rest of the loop iteration and the next iteration up to its await,
\* or the end of processBatch
urlFileSettled(u, ok) ==
  LET u1 == urlRecordOutcome(u, ok)
  IN IF u1.batch.index < Len(u1.batch.files)
     THEN urlBeginFile([u1 EXCEPT !.batch.index = @ + 1])
     ELSE [u1 EXCEPT !.isProcessing = FALSE, !.processingRef = FALSE,
                     !.batch = noUrls.batch]

urlReconvertAll(u, fs) ==
  LET filesToConvert == SelectSeq(fs, LAMBDA f : ~f.isConverting)
  IN IF Len(filesToConvert) > 0
     THEN urlProcessBatch([u EXCEPT !.processingRef = FALSE], filesToConvert)
     ELSE u

\* the auto-convert effect, run after every change of state.files
urlAutoConvert(u) ==
  LET unconvertedFiles ==
        SelectSeq(u.files, LAMBDA f : ~f.isConverted /\ ~f.isConverting)
      u1 == IF Len(u.files) > u.prevFilesLength
            THEN urlProcessBatch(u, unconvertedFiles)
            ELSE u
  IN [u1 EXCEPT !.prevFilesLength = Len(u.files)]

REMOVE_FILE(fs, id) == SelectSeq(fs, LAMBDA f : f.id # id)

webpUrls(fs) == {fs[i].webpUrl : i \in 1..Len(fs)} \ {0}

handleRemove(u, id) ==
  urlAutoConvert([u EXCEPT
    !.revoked = @ \cup webpUrls(SelectSeq(u.files, LAMBDA f : f.id = id)),
    !.files = REMOVE_FILE(u.files, id)])

clearAll(u) ==
  urlAutoConvert([u EXCEPT !.revoked = @ \cup webpUrls(u.files),
                           !.files = <<>>])

UrlCommit(u) ==
  /\ urls' = u
  /\ UNCHANGED <<chain, files, settings, processing, processingRef, settingsRef,
                 batches, debounce, saveTimers, prevFilesLength, prevSettings,
                 nextId, changes, editor, history>>

\* files are dropped
UrlAddFiles ==
  \E n \in 1..(MaxFiles - urls.nextId) :
    UrlCommit(urlAutoConvert([urls EXCEPT
      !.files = @ \o [i \in 1..n |-> urlFile(urls.nextId + i)],
      !.nextId = @ + n]))

\* the CONVERT button, disabled while a batch runs
UrlConvertAll ==
  /\ Len(urls.files) > 0
  /\ ~urls.isProcessing
  /\ UrlCommit(urlReconvertAll(urls, urls.files))

\* the processImage call of the running batch settles
UrlFileSettled ==
  /\ urls.batch.active
  /\ \E ok \in BOOLEAN :
       /\ ok => urls.batch.loaded /\ urls.created < MaxUrls
       /\ UrlCommit(urlFileSettled(urls, ok))

\* the remove button of a file card
UrlRemove ==
  \E i \in 1..Len(urls.files) : UrlCommit(handleRemove(urls, urls.files[i].id))

\* the CLEAR button
UrlClearAll ==
  /\ Len(urls.files) > 0
  /\ UrlCommit(clearAll(urls))

UrlNext ==
  \/ UrlAddFiles
  \/ UrlConvertAll
  \/ UrlFileSettled
  \/ UrlRemove
  \/ UrlClearAll

SpecUrls == Init /\ [][UrlNext]_vars

\* the result URLs that were created and not revoked
LiveUrls == (1..urls.created) \ urls.revoked

\* C17: every object URL created for a conversion result is the webpUrl of a
\* file of the list or has been revoked, so the live result URLs never
\* outnumber the files of the list.
C17_UrlsReleased ==
  /\ LiveUrls \subseteq webpUrls(urls.files)
  /\ Cardinality(LiveUrls) <= Len(urls.files)

(* ------------------- the batch controls (claims C18, C19) -------------- *)

\* const convertedFiles = files.filter(f => f.isConverted): the files that
\* downloadAll and downloadAsZip iterate over
convertedFiles(fs) == SelectSeq(fs, LAMBDA f : f.isConverted)

\* C18: a file whose error field is set is not among the files used by
\* download-all and by the zip download, also when an earlier conversion of
\* the file had succeeded and a later reconversion failed.
C18_FailedExcluded ==
  \A i \in 1..Len(files) :
    files[i].error # "none" => files[i].id \notin IdsOf(convertedFiles(files))

RECURSIVE originalTotal(_)
\* files.reduce((sum, f) => sum + f.originalSize, 0)
originalTotal(fs) ==
  IF fs = <<>> THEN 0 ELSE fs[1].originalSize + originalTotal(Tail(fs))

RECURSIVE sumConvertedSize(_)
\* reduce((sum, f) => sum + (f.convertedSize || 0), 0)
sumConvertedSize(fs) ==
  IF fs = <<>> THEN 0 ELSE fs[1].convertedSize + sumConvertedSize(Tail(fs))

\* getTotalStats().convertedTotal
convertedTotal(fs) == sumConvertedSize(convertedFiles(fs))

\* the files that converted successfully
Succeeded(fs) == SelectSeq(fs, LAMBDA f : f.isConverted /\ f.error = "none")

\* every file of the list has been converted or has failed, and none is
\* being converted
AllSettled ==
  /\ Len(files) > 0
  /\ ActiveBatches(State) = {}
  /\ \A i \in 1..Len(files) :
       ~files[i].isConverting /\ (files[i].isConverted \/ files[i].error # "none")

\* C19: once every file is settled, the 'before' and the 'after' total of
\* the aggregate statistics are sums over the files that converted
\* successfully; the sizes of a failed file are in neither.
C19_StatsOverSuccesses ==
  AllSettled =>
    /\ originalTotal(files) = originalTotal(Succeeded(files))
    /\ convertedTotal(files) = sumConvertedSize(Succeeded(files))

(* ------------ specification of the transform stage (claim C20) -------- *)

Rotations == {0, 90, 180, 270}

Flips == [horizontal : BOOLEAN, vertical : BOOLEAN]

Resizes ==
  {noResize,
   [enabled |-> TRUE, mode |-> "percentage", percentage |-> 50, width |-> 0,
    height |-> 0, lockAspect |-> FALSE],
   [enabled |-> TRUE, mode |-> "pixels", percentage |-> 100, width |-> 50,
    height |-> 0, lockAspect |-> TRUE]}

TransformDimSet == {<<100, 200>>, <<2000, 1000>>, <<64, 64>>}

\* no crop, and a 50x40 rectangle at (10, 10), inside every image of
\* TransformDimSet
Crops == {noCrop, [enabled |-> TRUE, x |-> 10, y |-> 10, width |-> 50, height |-> 40]}

TransformSettings ==
  [outputFormat : {"webp", "avif", "jpeg"}, quality : {80}, lossless : {FALSE},
   rotate : Rotations, flip : Flips, resize : Resizes, crop : Crops]

TransformInit ==
  /\ DriverInit
  /\ \E decodable \in BOOLEAN, st \in TransformSettings,
        dims \in TransformDimSet, enc \in AttemptEncs :
       /\ \A i \in 1..Len(Steps) :
            (~decodable \/ ~stepApplies(Steps[i], st.outputFormat)) => enc[i] = 0
       /\ chain = newCall([originalSize |-> BatchOriginalSize,
                           decodable |-> decodable], st, dims, enc)

SpecTransform == TransformInit /\ [][ChainNext]_vars

\* the canvas of the call is scaled down: avif above 1024 pixels
AvifScaled(c) ==
  c.outputFormat = "avif" /\ Max2(c.finalWidth, c.finalHeight) > 1024

\* the dimensions P4 states for a W x H image: H x W for a rotation of 90
\* or 270 degrees, W x H for 0 or 180
SwappedDims(c) ==
  IF c.rotate \in {90, 270} THEN <<c.imgHeight, c.imgWidth>>
  ELSE <<c.imgWidth, c.imgHeight>>

\* C20 (rotation dimension swap): with resize off, the transform stage of a
\* call on a W x H image yields H x W when rotate is 90 or 270 and W x H
\* when rotate is 0 or 180, whatever the flip flags; these are the
\* dimensions of the canvas of every attempt that is not scaled down.
C20_RotationSwap ==
  (~chain.resize.enabled /\ ~chain.crop.enabled) =>
    /\ <<chain.finalWidth, chain.finalHeight>> = SwappedDims(chain)
    /\ \A i \in 1..Len(chain.attempts) :
         LET a == chain.attempts[i]
         IN (a.result # NoResult /\ a.step # "emergency" /\ ~AvifScaled(chain))
              => <<a.result.width, a.result.height>> = SwappedDims(chain)

\* the example of P4: a 100x200 image, rotate 90 and horizontal flip, whose
\* call resolved with a result of 200x100
C20_Witness ==
  /\ chain.pc = "resolved"
  /\ ~chain.resize.enabled /\ ~chain.crop.enabled
  /\ chain.imgWidth = 100 /\ chain.imgHeight = 200
  /\ chain.rotate = 90 /\ chain.flip.horizontal
  /\ chain.result.width = 200 /\ chain.result.height = 100

(* ------------- specification of the image editor (claim C21) ---------- *)

\* The variable editor holds the file being edited (its width and height as
\* DropZone measured them), the resize part of the editor's settings and,
\* as a record of the input, the last value typed into a dimension field.

EditorDimSet == {<<100, 200>>, <<300, 200>>, <<64, 64>>, <<4, 3>>}

\* values typed into the width and height fields; 0 is an emptied field
EditValues == {0, 5, 500}

EditPercentages == {10, 50, 100, 200}

\* encoders that deliver no blob, or a blob smaller than the original, at
\* every attempt
EditorEncs == [1..Len(Steps) -> {0}] \cup [1..Len(Steps) -> {1}]

\* useState(...) of ImageEditor for a file of dims[1] x dims[2] pixels
editorInitial(dims) ==
  [open |-> TRUE, width |-> dims[1], height |-> dims[2],
   resize |-> [enabled |-> FALSE, mode |-> "percentage", percentage |-> 100,
               width |-> dims[1], height |-> dims[2], lockAspect |-> TRUE],
   lastEdit |-> [axis |-> "none", value |-> 0]]

\* originalAspect = file.width / file.height;
\* height = lockAspect ? Math.round(width / originalAspect) : resize.height
handleWidthChange(e, value) ==
  [e EXCEPT !.resize.width = value,
            !.resize.height = IF e.resize.lockAspect
                              THEN JsRound(value * e.height, e.width)
                              ELSE e.resize.height,
            !.lastEdit = [axis |-> "width", value |-> value]]

\* width = lockAspect ? Math.round(height * originalAspect) : resize.width
handleHeightChange(e, value) ==
  [e EXCEPT !.resize.height = value,
            !.resize.width = IF e.resize.lockAspect
                             THEN JsRound(value * e.width, e.height)
                             ELSE e.resize.width,
            !.lastEdit = [axis |-> "height", value |-> value]]

EditorCommit(e) ==
  /\ editor' = e
  /\ UNCHANGED <<chain, files, settings, processing, processingRef, settingsRef,
                 batches, debounce, saveTimers, prevFilesLength, prevSettings,
                 nextId, changes, urls, history>>

\* the edit button of a file card: the editor opens on the file
EditorOpen ==
  /\ ~editor.open
  /\ chain = noCall
  /\ \E dims \in EditorDimSet : EditorCommit(editorInitial(dims))

\* the Resize checkbox
ToggleResize ==
  /\ editor.open
  /\ EditorCommit([editor EXCEPT !.resize.enabled = ~@])

\* the Percentage and Dimensions buttons
SetResizeMode ==
  /\ editor.open /\ editor.resize.enabled
  /\ \E m \in {"percentage", "dimensions"} :
       EditorCommit([editor EXCEPT !.resize.mode = m])

\* the percentage slider (min 10, max 200)
SetPercentage ==
  /\ editor.open /\ editor.resize.enabled /\ editor.resize.mode = "percentage"
  /\ \E p \in EditPercentages : EditorCommit([editor EXCEPT !.resize.percentage = p])

\* the width field
WidthChange ==
  /\ editor.open /\ editor.resize.enabled /\ editor.resize.mode = "dimensions"
  /\ \E v \in EditValues : EditorCommit(handleWidthChange(editor, v))

\* the height field
HeightChange ==
  /\ editor.open /\ editor.resize.enabled /\ editor.resize.mode = "dimensions"
  /\ \E v \in EditValues : EditorCommit(handleHeightChange(editor, v))

\* the lock-aspect checkbox
ToggleLockAspect ==
  /\ editor.open /\ editor.resize.enabled /\ editor.resize.mode = "dimensions"
  /\ EditorCommit([editor EXCEPT !.resize.lockAspect = ~@])

\* handleSave: the settings are stored and the file is converted with them
EditorSave ==
  /\ editor.open
  /\ \E f \in {"webp", "avif"}, enc \in EditorEncs :
       /\ chain' = processImage(newCall(
                     [originalSize |-> BatchOriginalSize, decodable |-> TRUE],
                     [outputFormat |-> f, quality |-> 80, lossless |-> FALSE,
                      resize |-> editor.resize],
                     <<editor.width, editor.height>>, enc))
       /\ editor' = [editor EXCEPT !.open = FALSE]
       /\ UNCHANGED <<files, settings, processing, processingRef, settingsRef,
                      batches, debounce, saveTimers, prevFilesLength,
                      prevSettings, nextId, changes, urls, history>>

EditorNext ==
  \/ EditorOpen
  \/ ToggleResize
  \/ SetResizeMode
  \/ SetPercentage
  \/ WidthChange
  \/ HeightChange
  \/ ToggleLockAspect
  \/ EditorSave

SpecEditor == Init /\ [][EditorNext]_vars

\* the file was saved from the editor in dimensions mode with the aspect
\* locked, and the last value typed into a dimension field was positive
LockedSave(axis) ==
  /\ ~editor.open /\ chain.pc = "resolved"
  /\ chain.resize.enabled /\ chain.resize.mode = "dimensions"
  /\ chain.resize.lockAspect
  /\ editor.lastEdit.axis = axis /\ editor.lastEdit.value > 0

\* C21, width: an edit of the width to w yields output width w and height
\* round(w / r), r = W/H the aspect ratio of the source, whatever height
\* was set before.
C21_WidthEdit ==
  LockedSave("width") =>
    /\ chain.finalWidth = editor.lastEdit.value
    /\ chain.finalHeight = JsRound(editor.lastEdit.value * chain.imgHeight, chain.imgWidth)

\* C21 (aspect lock): the axis edited last is output as entered and the
\* other axis is round(w / r) or round(h * r), for an edit of the width as
\* for an edit of the height.
C21_AspectLock ==
  /\ C21_WidthEdit
  /\ LockedSave("height") =>
       /\ chain.finalHeight = editor.lastEdit.value
       /\ chain.finalWidth = JsRound(editor.lastEdit.value * chain.imgWidth, chain.imgHeight)

(* --------------------------- crop (claim C22) -------------------------- *)

\* C22 (crop is applied first): a resolved call with crop.enabled and rotate 0
\* worked at crop.width x crop.height with resize off, and at
\* round(crop.width*p/100) x round(crop.height*p/100) with a percentage
\* resize of p.
C22_CropFirst ==
  (chain.pc = "resolved" /\ chain.crop.enabled /\ chain.rotate = 0) =>
    /\ ~chain.resize.enabled
         => <<chain.finalWidth, chain.finalHeight>>
              = <<chain.crop.width, chain.crop.height>>
    /\ (chain.resize.enabled /\ chain.resize.mode = "percentage")
         => <<chain.finalWidth, chain.finalHeight>>
              = <<JsRound(chain.crop.width * chain.resize.percentage, 100),
                  JsRound(chain.crop.height * chain.resize.percentage, 100)>>

(* ---------- specification of the pixel filters (claims C23, C24) ------- *)

\* stored contrast values: both ends of the slider, 0 and values between
Contrasts == {-100, -50, 0, 1, 50, 100}

Brightnesses == {0, 20}

FilterSet == [grayscale : BOOLEAN, brightness : Brightnesses, contrast : Contrasts]

\* pixels: black, white, mid grey and two colours
Pixels == {<<0, 0, 0>>, <<255, 255, 255>>, <<128, 128, 128>>, <<200, 100, 50>>,
           <<10, 20, 250>>}

\* encoders that deliver no blob, a blob smaller than the original, and a
\* blob of the size of the original, at every attempt
FilterEncs == [1..Len(Steps) -> {0}] \cup [1..Len(Steps) -> {1}]
                \cup [1..Len(Steps) -> {BatchOriginalSize}]

FiltersInit ==
  /\ DriverInit
  /\ \E decodable \in BOOLEAN, f \in Formats, filters \in FilterSet,
        px \in Pixels, enc \in FilterEncs :
       /\ ~decodable => enc = [i \in 1..Len(Steps) |-> 0]
       /\ chain = newCall([originalSize |-> BatchOriginalSize,
                           decodable |-> decodable, pixel |-> px],
                          [outputFormat |-> f, quality |-> 80, lossless |-> FALSE,
                           filters |-> filters],
                          BatchDims, enc)

SpecFilters == FiltersInit /\ [][ChainNext]_vars

\* C23 (contrast identity): with contrast 0, grayscale off and brightness
\* 0, the pixel of the canvas of every attempt equals the pixel of the
\* decoded image.
C23_ContrastIdentity ==
  (chain.filters.contrast = 0 /\ ~chain.filters.grayscale
     /\ chain.filters.brightness = 0) =>
    \A i \in 1..Len(chain.attempts) : chain.attempts[i].canvas = chain.pixel

\* a call with no filter set on a coloured pixel resolved after an attempt
C23_Witness ==
  /\ chain.pc = "resolved"
  /\ chain.filters = noFilters
  /\ chain.pixel = <<200, 100, 50>>
  /\ Len(chain.attempts) > 0
  /\ chain.attempts[1].canvas = <<200, 100, 50>>

\* C24: for a stored contrast other than 0 (grayscale off, brightness 0)
\* each channel of the canvas of every attempt is factor * (in - 128) + 128
\* clamped to [0, 255] with factor = 259*(c*255+255) / (255*(259-c*255)),
\* c = (contrast+100)/100, as in the preview of the editor.
C24_ContrastRule ==
  (chain.filters.contrast # 0 /\ ~chain.filters.grayscale
     /\ chain.filters.brightness = 0) =>
    \A i \in 1..Len(chain.attempts) :
      chain.attempts[i].canvas = previewFilters(chain.filters, chain.pixel)

(* ------------ specification of the history logs (claim C25) ----------- *)

\* The variable history holds the log kept in localStorage (stored), the
\* history of the reducer (memory) and the number of additions made to
\* each; an entry is represented by the serial number of its addition.

MaxStoredAdds == 102

MaxMemoryAdds == 52

StoredCap == 100

MemoryCap == 50

\* array.slice(0, n)
slice0(s, n) == SubSeq(s, 1, Min2(n, Len(s)))

addToConversionHistoryMutant(log, entry) == slice0(Append(log, entry), StoredCap)

\* history.unshift(entry); setItem(..., history.slice(0, 100))
addToConversionHistory(log, entry) == slice0(<<entry>> \o log, StoredCap)

\* [action.payload, ...state.history].slice(0, 50)
ADD_TO_HISTORY(log, entry) == slice0(<<entry>> \o log, MemoryCap)

HistoryCommit(h) ==
  /\ history' = h
  /\ UNCHANGED <<chain, files, settings, processing, processingRef, settingsRef,
                 batches, debounce, saveTimers, prevFilesLength, prevSettings,
                 nextId, changes, urls, editor>>

\* the history effect of App records a converted file
AddStored ==
  /\ history.storedAdds < MaxStoredAdds
  /\ HistoryCommit([history EXCEPT
       !.stored = addToConversionHistory(@, history.storedAdds + 1),
       !.storedAdds = @ + 1])

\* actions.addToHistory(entry)
AddMemory ==
  /\ history.memoryAdds < MaxMemoryAdds
  /\ HistoryCommit([history EXCEPT
       !.memory = ADD_TO_HISTORY(@, history.memoryAdds + 1),
       !.memoryAdds = @ + 1])

HistoryNext == AddStored \/ AddMemory

SpecHistory == Init /\ [][HistoryNext]_vars

\* the log holds at most cap entries, newest first
BoundedNewestFirst(log, cap) ==
  /\ Len(log) <= cap
  /\ \A i \in 1..Len(log) - 1 : log[i] > log[i + 1]

\* an addition puts the new entry first, keeps the others in their order
\* and drops only the last (oldest) one, and only when the log was full
AdditionKeeps(old, new, entry, cap) ==
  /\ new[1] = entry
  /\ Tail(new) = SubSeq(old, 1, Len(new) - 1)
  /\ Len(new) = Min2(cap, Len(old) + 1)

\* C25: each history log holds at most its cap of entries (100 stored, 50
\* in the reducer), newest first; an addition drops the oldest entry when
\* the cap is exceeded and leaves the other entries in place and in order.
C25_HistoryBounded ==
  [][/\ BoundedNewestFirst(history'.stored, 100)
     /\ BoundedNewestFirst(history'.memory, 50)
     /\ history'.storedAdds # history.storedAdds
          => AdditionKeeps(history.stored, history'.stored, history'.storedAdds, 100)
     /\ history'.memoryAdds # history.memoryAdds
          => AdditionKeeps(history.memory, history'.memory, history'.memoryAdds, 50)]_vars

\* 101 entries were added to the stored log: it holds the 100 newest, and
\* the first one is gone
C25_Witness ==
  /\ history.storedAdds = 101
  /\ Len(history.stored) = 100
  /\ history.stored[1] = 101 /\ history.stored[100] = 2
  /\ history.memoryAdds = 51 /\ Len(history.memory) = 50

(* ---------------------- bounded search (claim C26) --------------------- *)

\* C26 (the search is bounded): a call issues at most 6 attempts, each step
\* at most once and in the order of the chain, and is settled after the
\* sixth; the half-quality step is issued only when outputFormat is not
\* png, the webp step only when it is not webp and then at min(0.6,
\* quality); the canvas of every attempt is the decoded image filtered
\* once, not the canvas of an earlier attempt.
C26_BoundedSearch ==
  /\ Len(chain.attempts) <= 6
  /\ Len(chain.attempts) = 6 => chain.pc \in {"resolved", "rejected"}
  /\ \A i \in 1..Len(chain.attempts) - 1 :
       StepIndex(chain.attempts[i].step) < StepIndex(chain.attempts[i + 1].step)
  /\ \A i \in 1..Len(chain.attempts) :
       LET a == chain.attempts[i]
       IN /\ a.step = "half" => chain.outputFormat # "png"
          /\ a.step = "webp" =>
               /\ chain.outputFormat # "webp"
               /\ a.format = "webp"
               /\ a.quality = Min2(600, chain.quality * 10)
          /\ a.canvas = IF chain.filters = noFilters THEN chain.pixel
                        ELSE applyFilters(chain.filters, chain.pixel)

\* a jpeg call with brightness 20 that went through all 6 attempts against
\* an encoder whose blobs are never smaller than the original, and resolved
C26_Witness ==
  /\ chain.pc = "resolved"
  /\ chain.outputFormat = "jpeg"
  /\ Len(chain.attempts) = 6
  /\ chain.filters.brightness = 20 /\ ~chain.filters.grayscale
  /\ chain.filters.contrast = 0
  /\ chain.pixel = <<200, 100, 50>>
  /\ chain.attempts[6].canvas = <<251, 151, 101>>

(* ------------------- auto-conversion (claim C27) ----------------------- *)

\* the file with this id is in the list and has been converted or has
\* failed
Done(id) ==
  \E i \in 1..Len(files) :
    files[i].id = id /\ (files[i].isConverted \/ files[i].error # "none")

\* C27: every file added to the list is eventually converted or marked
\* errored, also a file added while a batch is running.
C27_EveryFileConverted ==
  \A id \in 1..MaxFiles : (id \in IdsOf(files)) ~> Done(id)

(* ------------------ visible processing state (claim C28) --------------- *)

\* C28: processing.isProcessing is true exactly while a batch is executing,
\* which is exactly while processingRef.current is set, and while it is
\* false no file has isConverting = true.
C28_ProcessingAgrees ==
  /\ processing.isProcessing <=> ActiveBatches(State) # {}
  /\ processing.isProcessing <=> processingRef
  /\ ~processing.isProcessing => Converting = {}

(* --------------------- format labels (claim C29) ----------------------- *)

\* const outputExt = settings.outputFormat: the extension handleDownload,
\* downloadFile and downloadAsZip give the file name
downloadExt(st) == st.outputFormat

\* outputFormat: settings.outputFormat of the entry the history effect
\* logs in the render that follows a conversion
historyOutputFormat(st) == st.outputFormat

\* no batch is running and no timer is pending
Quiescent(s) ==
  ActiveBatches(s) = {} /\ ~s.debounce.pending /\ s.saveTimers = {}

\* C29: the extension of the download file name of a converted file, and
\* the outputFormat of the history entry logged when its conversion
\* succeeds, equal the outputFormat of the file record, the format of the
\* chosen attempt.
C29_LabelIsEncodedFormat ==
  [][\A i \in 1..Len(files') :
       (files'[i].isConverted /\ files'[i].error = "none") =>
         /\ Quiescent(State)' => downloadExt(settings') = files'[i].outputFormat
         /\ (i <= Len(files) /\ files[i].isConverting /\ ~files'[i].isConverting)
              => historyOutputFormat(settings') = files'[i].outputFormat]_vars

(* ------------------- zero dimensions (claim C30) ----------------------- *)

\* the resize settings are inside the documented ranges: off, a percentage
\* in [10, 200], or positive explicit width and height
ResizeInRange(resize) ==
  \/ ~resize.enabled
  \/ resize.mode = "percentage" /\ resize.percentage \in 10..200
  \/ resize.mode = "dimensions" /\ resize.width > 0 /\ resize.height > 0

\* C30: for a source of at least 1x1 pixels and resize settings inside the
\* documented ranges, the canvas of every attempt is at least 1 pixel wide
\* and 1 pixel high.
C30_NoZeroDimension ==
  (chain.imgWidth >= 1 /\ chain.imgHeight >= 1 /\ ResizeInRange(chain.resize)) =>
    \A i \in 1..Len(chain.attempts) :
      /\ stepWidth(chain, chain.attempts[i].step) >= 1
      /\ stepHeight(chain, chain.attempts[i].step) >= 1
====
